---- MODULE Spec2Model ----
(***************************************************************************)
(* rust-company-track: the Company aggregate (company.rs), its repository  *)
(* (Company::get / Company::save against two SQLite tables) and the menu   *)
(* loop of lib.rs.                                                         *)
(*                                                                         *)
(* Strings are sequences of one-character strings, so that trim() and      *)
(* to_lowercase() are computed and not assumed.                            *)
(***************************************************************************)
EXTENDS Integers, Sequences, FiniteSets, TLC

VARIABLES
    company,       \* Company { departments, employees, events }
    db,            \* the two tables, rows in insertion (rowid) order
    foreign_keys,  \* whether the SQLite build enforces REFERENCES
    next_id,       \* the next identifier cuid2() hands out
    stmts,         \* the statements the last save() passed to db.execute
    last,          \* the last call and what it returned
    pc,            \* position of run() (lib.rs); "api" for a library caller
    next,          \* run()'s `next` variable
    report,        \* the content last written to report.json
    exit_code      \* the process exit status once run() has returned

vars == <<company, db, foreign_keys, next_id, stmts, last, pc, next, report, exit_code>>

\* ------------------------------------------------------------------ bounds

\* How many identifiers cuid2() hands out in a run of the model.
MaxIds == 2

\* ----------------------------------------------------------------- strings

Whitespace == {" ", "\n"}

to_lowercase_char(c) ==
    CASE c = "A" -> "a"
      [] c = "B" -> "b"
      [] c = "E" -> "e"
      [] c = "X" -> "x"
      [] OTHER -> c

to_lowercase(s) == [i \in 1..Len(s) |-> to_lowercase_char(s[i])]

RECURSIVE trim_start(_)
trim_start(s) ==
    IF s # <<>> /\ Head(s) \in Whitespace THEN trim_start(Tail(s)) ELSE s

RECURSIVE trim_end(_)
trim_end(s) ==
    IF s # <<>> /\ s[Len(s)] \in Whitespace
    THEN trim_end(SubSeq(s, 1, Len(s) - 1))
    ELSE s

trim(s) == trim_end(trim_start(s))

\* Department names a caller may type (raw, before any normalisation).
DepartmentInputs ==
    { <<"e">>, <<"E", " ">>, <<" ", "B", "\n">> }

\* Employee names a caller may type.
EmployeeInputs ==
    { <<"x">>, <<" ", "x", "\n">>, <<"X">> }

\* --------------------------------------------------------------- aggregate

Ok == [ok |-> TRUE, err |-> "none"]
Err(kind) == [ok |-> FALSE, err |-> kind]

None == 0

Department(id, name) == [id |-> id, name |-> name]
Employee(id, name, department_id) ==
    [id |-> id, name |-> name, department_id |-> department_id]

DepartmentAdded(department) == [type |-> "DepartmentAdded", entity |-> department]
EmployeeHired(employee) == [type |-> "EmployeeHired", entity |-> employee]

CompanyDefault == [departments |-> <<>>, employees |-> <<>>, events |-> <<>>]

\* AggregateRoot::apply
apply(c, event) == [c EXCEPT !.events = Append(@, event)]

\* commit() that forgets to clear the buffer.
commit_keeps_buffer(c) == c

\* AggregateRoot::commit
commit(c) == [c EXCEPT !.events = <<>>]

\* AggregateRoot::get_uncommited_events
get_uncommited_events(c) == c.events

\* Index of the first department with that exact name, None when there is none.
find_department(c, department_name) ==
    LET hits == { i \in 1..Len(c.departments) :
                    c.departments[i].name = department_name }
    IN  IF hits = {} THEN None
        ELSE CHOOSE i \in hits : \A j \in hits : i <= j

\* add_department that looks the name up as typed and normalizes afterwards.
add_department_raw_lookup(c, department_name, id) ==
    IF find_department(c, department_name) # None
    THEN [company |-> c, result |-> Err("DuplicateDepartment"), used_id |-> FALSE]
    ELSE LET department == Department(id, to_lowercase(trim(department_name))) IN
         [company |-> apply([c EXCEPT !.departments = Append(@, department)],
                            DepartmentAdded(department)),
          result |-> Ok, used_id |-> TRUE]

add_department(c, department_name, id) ==
    LET name == to_lowercase(trim(department_name)) IN
    IF find_department(c, name) # None
    THEN [company |-> c, result |-> Err("DuplicateDepartment"), used_id |-> FALSE]
    ELSE LET department == Department(id, name) IN
         [company |-> apply([c EXCEPT !.departments = Append(@, department)],
                            DepartmentAdded(department)),
          result |-> Ok, used_id |-> TRUE]

\* hire_employee that records the employee before it looks the department up.
hire_employee_push_first(c, employee_name, department_name, id) ==
    LET i == find_department(c, department_name)
        employee == Employee(id, trim(employee_name),
                             IF i # None THEN c.departments[i].id ELSE None)
        hired == apply([c EXCEPT !.employees = Append(@, employee)],
                       EmployeeHired(employee))
    IN  IF i # None
        THEN [company |-> hired, result |-> Ok, used_id |-> TRUE]
        ELSE [company |-> hired, result |-> Err("DepartmentNotFound"), used_id |-> TRUE]

hire_employee(c, employee_name, department_name, id) ==
    LET i == find_department(c, department_name) IN
    IF i # None
    THEN LET employee == Employee(id, trim(employee_name), c.departments[i].id) IN
         [company |-> apply([c EXCEPT !.employees = Append(@, employee)],
                            EmployeeHired(employee)),
          result |-> Ok, used_id |-> TRUE]
    ELSE [company |-> c, result |-> Err("DepartmentNotFound"), used_id |-> FALSE]

get_total_employees(c) == Len(c.employees)

get_employees_by_department(c, department_id) ==
    Cardinality({ i \in 1..Len(c.employees) :
                    c.employees[i].department_id = department_id })

\* ----------------------------------------------------------------- storage

\* departments(id TEXT PRIMARY KEY, name TEXT NOT NULL UNIQUE)
\* employees(id TEXT PRIMARY KEY, name TEXT NOT NULL UNIQUE,
\*           department_id TEXT NOT NULL REFERENCES departments(id))
EmptyDb == [departments |-> <<>>, employees |-> <<>>]

Rows(table) == { table[i] : i \in 1..Len(table) }

\* The employee INSERT with the id bound where the department_id belongs.
insert_statement_wrong_binding(event) ==
    IF event.type = "DepartmentAdded"
    THEN [table |-> "departments", row |-> event.entity]
    ELSE [table |-> "employees",
          row |-> [event.entity EXCEPT !.department_id = event.entity.id]]

\* The INSERT statement save() issues for one event.
insert_statement(event) ==
    IF event.type = "DepartmentAdded"
    THEN [table |-> "departments", row |-> event.entity]
    ELSE [table |-> "employees", row |-> event.entity]

\* Whether the tables' constraints let the statement through.
accepts(database, fk, st) ==
    IF st.table = "departments"
    THEN /\ \A r \in Rows(database.departments) : r.id # st.row.id
         /\ \A r \in Rows(database.departments) : r.name # st.row.name
    ELSE /\ \A r \in Rows(database.employees) : r.id # st.row.id
         /\ \A r \in Rows(database.employees) : r.name # st.row.name
         /\ fk => \E d \in Rows(database.departments) : d.id = st.row.department_id

execute(database, st) ==
    IF st.table = "departments"
    THEN [database EXCEPT !.departments = Append(@, st.row)]
    ELSE [database EXCEPT !.employees = Append(@, st.row)]

\* The loop of Company::save from event i on: one db.execute per event, `?`
\* returning at the first statement storage rejects.
RECURSIVE save_from(_, _, _, _, _)
save_from(events, i, database, fk, sent) ==
    IF i > Len(events)
    THEN [db |-> database, stmts |-> sent, result |-> Ok]
    ELSE LET st == insert_statement(events[i]) IN
         IF accepts(database, fk, st)
         THEN save_from(events, i + 1, execute(database, st), fk, Append(sent, st))
         ELSE [db |-> database, stmts |-> Append(sent, st), result |-> Err("Storage")]

RECURSIVE Reversed(_)
Reversed(seq) == IF seq = <<>> THEN <<>> ELSE Append(Reversed(Tail(seq)), Head(seq))

\* save that walks the buffer from its newest event.
save_reversed(c, database, fk) ==
    save_from(Reversed(get_uncommited_events(c)), 1, database, fk, <<>>)

\* save inside a transaction: a failure takes the earlier rows back.
save_all_or_nothing(c, database, fk) ==
    LET r == save_from(get_uncommited_events(c), 1, database, fk, <<>>) IN
    IF r.result.ok THEN r ELSE [r EXCEPT !.db = database]

\* Repository::save
save(c, database, fk) == save_from(get_uncommited_events(c), 1, database, fk, <<>>)

\* "SELECT * FROM employees WHERE department_id = $1", in row order.
RECURSIVE employees_of(_, _)
employees_of(table, department_id) ==
    IF table = <<>> THEN <<>>
    ELSE IF Head(table).department_id = department_id
         THEN <<Head(table)>> \o employees_of(Tail(table), department_id)
         ELSE employees_of(Tail(table), department_id)

\* The outer loop of Company::get over the rows of departments from row i on.
RECURSIVE get_from(_, _, _)
get_from(database, i, c) ==
    IF i > Len(database.departments) THEN c
    ELSE LET dpt == database.departments[i] IN
         get_from(database, i + 1,
                  [c EXCEPT !.employees = @ \o employees_of(database.employees, dpt.id),
                            !.departments = Append(@, dpt)])

\* get with "SELECT * FROM employees" in place of the query per department.
get_all_employees(database) ==
    [departments |-> database.departments,
     employees |-> database.employees,
     events |-> <<>>]

\* Repository::get
get(database) == get_from(database, 1, CompanyDefault)

\* Storage files a session may start from: none yet, one written by earlier
\* sessions, and one whose employees table holds a row of a department that
\* is not there (only a build that does not enforce REFERENCES keeps it).
StoredE == Department(101, <<"e">>)
StoredB == Department(102, <<"b">>)

InitialDbs ==
    { EmptyDb,
      [departments |-> <<StoredE, StoredB>>,
       employees |-> <<Employee(201, <<"x">>, 102), Employee(202, <<"y">>, 101)>>] }

OrphanDbs ==
    { [departments |-> <<StoredE>>,
       employees |-> <<Employee(201, <<"y">>, 999)>>] }

\* ------------------------------------------------------------------ report

\* `{:.2}` of employees * 100 / total_employees in f32: hundredths of a
\* percent, rounded; 0.0 / 0.0 is NaN.
percentage(employees, total_employees) ==
    IF total_employees = 0
    THEN [nan |-> TRUE, hundredths |-> 0]
    ELSE [nan |-> FALSE,
          hundredths |-> (employees * 10000 * 2 + total_employees)
                            \div (2 * total_employees)]

\* The JSON object generate_report writes.
generate_report(c) ==
    LET total_employees == get_total_employees(c)
        names == { c.departments[i].name : i \in 1..Len(c.departments) }
        dept(n) == c.departments[find_department(c, n)]
    IN  [departments |-> Len(c.departments),
         employees |-> total_employees,
         company_distribution |->
            [n \in names |->
                LET employees == get_employees_by_department(c, dept(n).id) IN
                [pct |-> percentage(employees, total_employees),
                 employees |-> employees]]]

NoReport == [departments |-> 0, employees |-> 0, company_distribution |-> <<>>]

\* ------------------------------------------------- the aggregate's callers

Call(op, args, result) == [op |-> op, args |-> args, result |-> result]

Init ==
    /\ foreign_keys \in BOOLEAN
    /\ db \in InitialDbs \cup (IF foreign_keys THEN {} ELSE OrphanDbs)
    /\ company = get(db)
    /\ next_id = 1
    /\ stmts = <<>>
    /\ last = Call("get", <<>>, Ok)
    /\ pc = "api"
    /\ next = "None"
    /\ report = NoReport
    /\ exit_code = -1

UNCHANGED_cli == UNCHANGED <<pc, next, report, exit_code>>

\* company.add_department(department_name)
AddDepartment ==
    \E department_name \in DepartmentInputs :
        LET r == add_department(company, department_name, next_id) IN
        /\ r.used_id => next_id <= MaxIds
        /\ company' = r.company
        /\ next_id' = IF r.used_id THEN next_id + 1 ELSE next_id
        /\ last' = Call("add_department", <<department_name>>, r.result)
        /\ UNCHANGED <<db, foreign_keys, stmts>>
        /\ UNCHANGED_cli

\* Names a library caller may pass as department_name to hire_employee: what
\* was typed, and the names the company holds.
HireDepartmentInputs ==
    DepartmentInputs \cup { company.departments[i].name : i \in 1..Len(company.departments) }

\* company.hire_employee(employee_name, department_name)
HireEmployee ==
    \E employee_name \in EmployeeInputs, department_name \in HireDepartmentInputs :
        LET r == hire_employee(company, employee_name, department_name, next_id) IN
        /\ r.used_id => next_id <= MaxIds
        /\ company' = r.company
        /\ next_id' = IF r.used_id THEN next_id + 1 ELSE next_id
        /\ last' = Call("hire_employee", <<employee_name, department_name>>, r.result)
        /\ UNCHANGED <<db, foreign_keys, stmts>>
        /\ UNCHANGED_cli

\* company.save(&db)
Save ==
    LET r == save(company, db, foreign_keys) IN
    /\ db' = r.db
    /\ stmts' = r.stmts
    /\ last' = Call("save", <<>>, r.result)
    /\ UNCHANGED <<company, foreign_keys, next_id>>
    /\ UNCHANGED_cli

\* company.commit()
Commit ==
    /\ company' = commit(company)
    /\ last' = Call("commit", <<>>, Ok)
    /\ UNCHANGED <<db, foreign_keys, next_id, stmts>>
    /\ UNCHANGED_cli

\* Company::get(&db): a fresh aggregate replaces the one held.
Get ==
    /\ company' = get(db)
    /\ last' = Call("get", <<>>, Ok)
    /\ UNCHANGED <<db, foreign_keys, next_id, stmts>>
    /\ UNCHANGED_cli

Next == AddDepartment \/ HireEmployee \/ Save \/ Commit \/ Get

Spec == Init /\ [][Next]_vars

\* ------------------------------------------------------- run() of lib.rs

Possibilities == {"AddDepartment", "HireEmployee", "ViewList", "GenerateReport", "Quit"}

\* The handlers with the save's result dropped: commit whatever it returned.
after_save_always_commit(result) == "commit"

\* `company.save(db)?; company.commit();` of both handlers: where the handler
\* goes once save has returned.
after_save(result) == IF result.ok THEN "commit" ELSE "returned"

\* `if let Err(err) = company.<mutation>(..) { eprintln } else { save; commit }`
after_mutation(result) == IF result.ok THEN "save" ELSE "next_choice"

RunInit ==
    /\ foreign_keys \in BOOLEAN
    /\ db \in InitialDbs \cup (IF foreign_keys THEN {} ELSE OrphanDbs)
    /\ company = CompanyDefault
    /\ next_id = 1
    /\ stmts = <<>>
    /\ last = Call("none", <<>>, Ok)
    /\ pc = "run"
    /\ next = "None"
    /\ report = NoReport
    /\ exit_code = -1

\* run(): open the file, CREATE TABLE IF NOT EXISTS twice, Company::get.
RunGet ==
    /\ pc = "run"
    /\ company' = get(db)
    /\ last' = Call("get", <<>>, Ok)
    /\ pc' = "next_choice"
    /\ UNCHANGED <<db, foreign_keys, next_id, stmts, next, report, exit_code>>

\* next = next_choice().unwrap()
RunNextChoice ==
    /\ pc = "next_choice"
    /\ next' \in Possibilities
    /\ pc' = "while"
    /\ UNCHANGED <<company, db, foreign_keys, next_id, stmts, last, report, exit_code>>

\* add_department(&db, &mut company) up to the aggregate's answer.
RunAddDepartment ==
    /\ pc = "while" /\ next = "AddDepartment"
    /\ \E department \in DepartmentInputs :
        LET r == add_department(company, department, next_id) IN
        /\ r.used_id => next_id <= MaxIds
        /\ company' = r.company
        /\ next_id' = IF r.used_id THEN next_id + 1 ELSE next_id
        /\ last' = Call("add_department", <<department>>, r.result)
        /\ pc' = after_mutation(r.result)
    /\ UNCHANGED <<db, foreign_keys, stmts, next, report, exit_code>>

\* hire_employee(&db, &mut company) with no department to choose from.
RunHireNoDepartment ==
    /\ pc = "while" /\ next = "HireEmployee"
    /\ Len(company.departments) = 0
    /\ pc' = "next_choice"
    /\ UNCHANGED <<company, db, foreign_keys, next_id, stmts, last, next, report, exit_code>>

\* hire_employee(&db, &mut company) up to the aggregate's answer; the
\* department is one of the names ask_for_department lists.
RunHireEmployee ==
    /\ pc = "while" /\ next = "HireEmployee"
    /\ Len(company.departments) # 0
    /\ \E employee \in EmployeeInputs, i \in 1..Len(company.departments) :
        LET department == company.departments[i].name
            r == hire_employee(company, employee, department, next_id) IN
        /\ r.used_id => next_id <= MaxIds
        /\ company' = r.company
        /\ next_id' = IF r.used_id THEN next_id + 1 ELSE next_id
        /\ last' = Call("hire_employee", <<employee, department>>, r.result)
        /\ pc' = after_mutation(r.result)
    /\ UNCHANGED <<db, foreign_keys, stmts, next, report, exit_code>>

\* company.save(db)? of either handler; an Err leaves run() and main exits 1.
RunSave ==
    /\ pc = "save"
    /\ LET r == save(company, db, foreign_keys) IN
        /\ db' = r.db
        /\ stmts' = r.stmts
        /\ last' = Call("save", <<>>, r.result)
        /\ pc' = after_save(r.result)
        /\ exit_code' = IF after_save(r.result) = "returned" THEN 1 ELSE exit_code
    /\ UNCHANGED <<company, foreign_keys, next_id, next, report>>

\* company.commit() of either handler.
RunCommit ==
    /\ pc = "commit"
    /\ company' = commit(company)
    /\ last' = Call("commit", <<>>, Ok)
    /\ pc' = "next_choice"
    /\ UNCHANGED <<db, foreign_keys, next_id, stmts, next, report, exit_code>>

\* view_list(&company): prints, changes nothing.
RunViewList ==
    /\ pc = "while" /\ next = "ViewList"
    /\ pc' = "next_choice"
    /\ UNCHANGED <<company, db, foreign_keys, next_id, stmts, last, next, report, exit_code>>

\* generate_report(&company)
RunGenerateReport ==
    /\ pc = "while" /\ next = "GenerateReport"
    /\ report' = generate_report(company)
    /\ last' = Call("generate_report", <<>>, Ok)
    /\ pc' = "next_choice"
    /\ UNCHANGED <<company, db, foreign_keys, next_id, stmts, next, exit_code>>

\* while next != Possibilities::Quit: run() returns Ok(()).
RunQuit ==
    /\ pc = "while" /\ next = "Quit"
    /\ pc' = "returned"
    /\ exit_code' = 0
    /\ UNCHANGED <<company, db, foreign_keys, next_id, stmts, last, next, report>>

RunNext ==
    \/ RunGet
    \/ RunNextChoice
    \/ RunAddDepartment
    \/ RunHireNoDepartment
    \/ RunHireEmployee
    \/ RunSave
    \/ RunCommit
    \/ RunViewList
    \/ RunGenerateReport
    \/ RunQuit

RunSpec == RunInit /\ [][RunNext]_vars

\* ------------------------------------------------------------- properties

DepartmentNames(c) == { c.departments[i].name : i \in 1..Len(c.departments) }

\* C1: add_department(name) returns the duplicate error, and changes nothing,
\* whenever trim + lowercase of name is the name of a department the company
\* already holds, whatever the casing or surrounding whitespace of name.
C1_DuplicateRejected ==
    [][ ( /\ last'.op = "add_department"
          /\ to_lowercase(trim(last'.args[1])) \in DepartmentNames(company) )
        => /\ last'.result = Err("DuplicateDepartment")
           /\ company' = company
           /\ db' = db ]_vars

\* C1 witness: "E " was refused because "e" is there.
C1_Witness ==
    /\ last = Call("add_department", << <<"E", " ">> >>, Err("DuplicateDepartment"))
    /\ <<"e">> \in DepartmentNames(company)
    /\ <<"E", " ">> \notin DepartmentNames(company)

\* C2: hire_employee with a department_name that is the name of no department
\* returns the not-found error and leaves the employees and the uncommitted
\* events as they were.
C2_HireUnknownDepartment ==
    [][ ( /\ last'.op = "hire_employee"
          /\ last'.args[2] \notin DepartmentNames(company) )
        => /\ last'.result = Err("DepartmentNotFound")
           /\ company'.employees = company.employees
           /\ company'.events = company.events
           /\ company'.departments = company.departments ]_vars

\* C2 witness: a company with departments refused a hire into another name.
C2_Witness ==
    /\ last.op = "hire_employee"
    /\ last.result = Err("DepartmentNotFound")
    /\ company.departments # <<>>
    /\ last.args[2] \notin DepartmentNames(company)

\* C3 (as claimed): hire_employee finds the department by the normalized
\* department_name: whenever trim + lowercase of department_name is the name
\* of a department held, the call succeeds and the employee count grows by one.
C3_HireByNormalizedName ==
    [][ ( /\ last'.op = "hire_employee"
          /\ to_lowercase(trim(last'.args[2])) \in DepartmentNames(company) )
        => /\ last'.result.ok
           /\ get_total_employees(company') = get_total_employees(company) + 1 ]_vars

RECURSIVE SumByDepartment(_, _)
SumByDepartment(c, i) ==
    IF i > Len(c.departments) THEN 0
    ELSE get_employees_by_department(c, c.departments[i].id) + SumByDepartment(c, i + 1)

\* C4: in every state reached from a load by add_department, hire_employee,
\* save, commit (failed calls included), get_total_employees() is the sum over
\* the departments of get_employees_by_department(department.id).
C4_TotalIsSumOverDepartments ==
    get_total_employees(company) = SumByDepartment(company, 1)

\* C4 witness: two departments with employees in both, three employees in
\* all, right after a successful hire.
C4_Witness ==
    /\ Len(company.departments) >= 2
    /\ get_total_employees(company) >= 3
    /\ \A i \in 1..Len(company.departments) :
          get_employees_by_department(company, company.departments[i].id) >= 1
    /\ last.op = "hire_employee" /\ last.result.ok

\* Every department and employee of the aggregate is in storage or waits in
\* the buffer: nothing was committed away without having been saved.
Covered ==
    LET pending(type) == { company.events[i].entity :
                             i \in { j \in 1..Len(company.events) :
                                        company.events[j].type = type } }
    IN  /\ Rows(company.departments) \subseteq
              Rows(db.departments) \cup pending("DepartmentAdded")
        /\ Rows(company.employees) \subseteq
              Rows(db.employees) \cup pending("EmployeeHired")

SameEntities(c1, c2) ==
    /\ Rows(c1.departments) = Rows(c2.departments)
    /\ Rows(c1.employees) = Rows(c2.employees)
    /\ Len(c1.departments) = Len(c2.departments)
    /\ Len(c1.employees) = Len(c2.employees)

\* C5: after successful add_department / hire_employee calls and a successful
\* save, a fresh get from the same storage has the departments (id, name) and
\* the employees (id, name, department_id) of the saved aggregate, field for
\* field (their order aside).
C5_RoundTrip ==
    [][ ( /\ last'.op = "save"
          /\ last'.result.ok
          /\ Covered )
        => SameEntities(get(db'), company') ]_vars

\* C5 witness: a save went through and the reload agrees, with
\* the employees in another order than the aggregate holds them.
C5_Witness ==
    /\ last.op = "save" /\ last.result.ok
    /\ stmts # <<>>
    /\ company.events # <<>>
    /\ SameEntities(get(db), company)
    /\ get(db).employees # company.employees

\* What C6 says of commit and of save leaving the buffer alone.
C6_CommitAndBuffer ==
    /\ (last'.op = "commit" /\ company.events = <<>>) => company' = company
    /\ last'.op = "commit" =>
          /\ company'.departments = company.departments
          /\ company'.employees = company.employees
          /\ company'.events = <<>>
          /\ db' = db
    /\ last'.op = "save" => company' = company
    /\ (last.op = "commit" /\ last'.op = "save") => stmts' = <<>> /\ last'.result.ok

\* C6 (as claimed): ... and two save calls with nothing between them send the
\* same insert statements twice.
C6_SaveTwiceSameStatements ==
    [][ /\ C6_CommitAndBuffer
        /\ (last.op = "save" /\ last'.op = "save") => stmts' = stmts ]_vars

\* C6 (amended): ... and of two save calls with nothing between them the
\* second starts over from the first event and stops at the first statement
\* storage rejects: it sends the same statements when the first call sent at
\* most one, and only the first statement, which the duplicate key rejects,
\* when the first call sent more.
C6_SaveTwiceResends ==
    [][ /\ C6_CommitAndBuffer
        /\ (last.op = "save" /\ last'.op = "save") =>
              /\ Len(stmts) <= 1 => stmts' = stmts
              /\ Len(stmts) >= 2 => stmts' = <<stmts[1]>> /\ ~last'.result.ok ]_vars

\* C6 witness: the second of two saves in a row, of a buffer of two events.
C6_Witness ==
    /\ last = Call("save", <<>>, Err("Storage"))
    /\ Len(company.events) = 2
    /\ stmts = <<insert_statement(company.events[1])>>
    /\ company.events[1].entity \in
          Rows(db.departments) \cup Rows(db.employees)
    /\ company.events[2].entity \in
          Rows(db.departments) \cup Rows(db.employees)

\* C7 (as claimed): a report of a company without employees holds no NaN
\* percentage.
C7_ReportWithoutNaN ==
    (last.op = "generate_report" /\ report.employees = 0)
        => \A n \in DOMAIN report.company_distribution :
              ~report.company_distribution[n].pct.nan

\* The entities of the events 1..k of the given type, in order.
Entities(events, k, type) ==
    LET of_type(e) == e.type = type IN
    [i \in 1..Len(SelectSeq(SubSeq(events, 1, k), of_type)) |->
        SelectSeq(SubSeq(events, 1, k), of_type)[i].entity]

TableOf(event) ==
    IF event.type = "DepartmentAdded" THEN "departments" ELSE "employees"

\* The statements of the events 1..k, one each, in order.
Sent(events, k) ==
    [i \in 1..k |-> [table |-> TableOf(events[i]), row |-> events[i].entity]]

\* C8: a successful save executes one insert per uncommitted event, in the
\* order of the buffer, into the table of the event's variant; so the insert
\* of a department comes before that of any employee hired into it.
C8_SaveInOrder ==
    [][ (last'.op = "save" /\ last'.result.ok) =>
          /\ stmts' = Sent(company.events, Len(company.events))
          /\ db'.departments = db.departments \o
                Entities(company.events, Len(company.events), "DepartmentAdded")
          /\ db'.employees = db.employees \o
                Entities(company.events, Len(company.events), "EmployeeHired")
          /\ \A i, j \in 1..Len(stmts') :
                ( /\ stmts'[i].table = "departments"
                  /\ stmts'[j].table = "employees"
                  /\ stmts'[j].row.department_id = stmts'[i].row.id ) => i < j ]_vars

\* C8 witness: a department and an employee hired into it went out in one save.
C8_Witness ==
    /\ last.op = "save" /\ last.result.ok
    /\ Len(stmts) = 2
    /\ stmts[1].table = "departments"
    /\ stmts[2].table = "employees"
    /\ stmts[2].row.department_id = stmts[1].row.id

\* C9: a save that fails stops at the event whose insert storage rejects and
\* returns the storage error: the rows of the earlier events stay, no
\* statement goes out for the later ones, the aggregate is as before.
C9_SaveFailureIsPartial ==
    [][ (last'.op = "save" /\ ~last'.result.ok) =>
          /\ last'.result = Err("Storage")
          /\ company' = company
          /\ \E k \in 1..Len(company.events) :
                /\ stmts' = Sent(company.events, k)
                /\ db'.departments = db.departments \o
                      Entities(company.events, k - 1, "DepartmentAdded")
                /\ db'.employees = db.employees \o
                      Entities(company.events, k - 1, "EmployeeHired") ]_vars

\* C9 witness: the second insert of a save was rejected (an employee name
\* storage already holds) and the row of the first stayed.
C9_Witness ==
    /\ last = Call("save", <<>>, Err("Storage"))
    /\ Len(stmts) = 2
    /\ stmts[1].row \in Rows(db.departments) \cup Rows(db.employees)
    /\ stmts[2].row \notin Rows(db.employees)
    /\ \E r \in Rows(db.employees) : r.name = stmts[2].row.name
    /\ Len(company.events) = 2

\* C10: in run(), commit is called only after a save of the buffered events
\* returned Ok; a refused mutation is followed by neither save nor commit and
\* the loop goes on; a failed save is never followed by commit and ends run()
\* with the error; the buffer is empty whenever the menu is shown.
C10_CommitOnlyAfterSave ==
    [][ /\ pc = "commit" =>
              /\ last = Call("save", <<>>, Ok)
              /\ stmts = Sent(company.events, Len(company.events))
              /\ \A i \in 1..Len(stmts) :
                    stmts[i].row \in Rows(db.departments) \cup Rows(db.employees)
        /\ (company.events # <<>> /\ company'.events = <<>>) => pc = "commit"
        /\ ( /\ pc = "while" /\ next \in {"AddDepartment", "HireEmployee"}
             /\ last'.op \in {"add_department", "hire_employee"}
             /\ ~last'.result.ok )
           => /\ pc' = "next_choice"
              /\ company' = company /\ db' = db
        /\ (pc = "save" /\ ~last'.result.ok) =>
              /\ last'.op = "save"
              /\ pc' = "returned" /\ exit_code' = 1
              /\ company' = company
        /\ pc = "returned" => pc' = "returned"
        /\ pc' = "next_choice" => company'.events = <<>> ]_vars

\* C10 witness: a save failed, run() returned the error, the event is still
\* in the buffer.
C10_Witness ==
    /\ pc = "returned" /\ exit_code = 1
    /\ last = Call("save", <<>>, Err("Storage"))
    /\ company.events # <<>>

====
